---- MODULE Spec2Model ----
(***************************************************************************)
(* Model of pipeline/extração.py: DatabaseMigration, the chunked and       *)
(* resumable copy of Firebird tables into the PostgreSQL schema "bronze".  *)
(*                                                                         *)
(* A source table is the sequence of its row numbers (ROWS m TO n is       *)
(* positional), a destination table the sequence of the source row numbers *)
(* committed to it, in commit order.  One process runs at a time; it can   *)
(* be killed at any step and started again.                                *)
(*                                                                         *)
(* A COPY (lines 70 and 90) raises for the rows chosen in "failing" when   *)
(* the page is read, and the bulk COPY may raise for another reason too.   *)
(* The connections to the source (lines 50, 109, 128) and the count query  *)
(* of the destination (line 103) may fail; nothing catches that.  Column   *)
(* names and cell values are left out: a row is its row number.            *)
(***************************************************************************)
EXTENDS Integers, Sequences, FiniteSets, TLC

\* ---------------------------------------------------------------- bounds
MaxTotal == 3      \* largest source table, in rows
MaxBlock == 2      \* largest block_size tried
MaxRuns  == 2      \* number of times the process is started
MaxSrcWrites == 1  \* writes of other programs to the source tables
MaxStr == 2        \* characters of a str or bytes value in a cell
OrchTotal == 1     \* largest source table when several tables are requested

Names == {"T1", "T2"}

\* The requested lists tried when several tables are requested (the __main__
\* list, lines 162-190, repeats names and may name tables absent at the source).
RequestLists ==
    { <<"T1", "T2">>, <<"T1", "T1">> }

VARIABLES
    src,              \* Firebird: table -> sequence of row numbers
    available_tables, \* Firebird catalog: the tables that exist
    dest,             \* PostgreSQL bronze: table -> committed rows
    tables_to_load,   \* the list given to run_migration
    block_size,       \* block_size of extract_and_load_data_in_chunks
    pc,               \* position of the process
    filtered,         \* tables_to_load after line 149
    pos,              \* index in filtered of the table being migrated
    total_records,    \* line 112
    offset,           \* line 122 / 141
    rows,             \* line 133, the fetched page
    failing,          \* positions of rows whose COPY raises (malformed rows)
    idx,              \* position of iterrows in load_rows_individually
    runs,             \* how many times the process was started
    lastEnd,          \* how the previous process ended
    \* ---- observations of the run, read by the properties only
    startOffset,      \* offset read at line 121 for the current table
    pages,            \* paginated reads of the current table: <<offset, rows>>
    bulkFailed,       \* the COPY of the current page raised
    preCount,         \* destination count when the bulk COPY was attempted
    passes,           \* row-by-row passes made over the current page
    attempts,         \* row-by-row attempts of the current page: <<row, ok>>
    fetchedHi,        \* table -> highest row position fetched by this process
    killedHi,         \* table -> the same, for the process that was killed
    srcWrites,        \* writes made to the source by other programs
    skipped,          \* rows of the current table whose row COPY raised
    pbar,             \* line 126, tqdm: [total, n]
    san               \* a DataFrame on its way through load_data_using_copy

vars == << src, available_tables, dest, tables_to_load, block_size, pc,
           filtered, pos, total_records, offset, rows, failing, idx, runs,
           lastEnd, startOffset, pages, bulkFailed, preCount, passes,
           attempts, fetchedHi, killedHi, srcWrites, skipped, pbar, san >>

config   == << src, available_tables, tables_to_load, block_size, srcWrites,
               san >>
observed == << startOffset, pages, bulkFailed, preCount, passes, attempts,
               skipped, pbar >>

\* ---------------------------------------------------------------- helpers
Min(a, b) == IF a < b THEN a ELSE b
Max(a, b) == IF a > b THEN a ELSE b

Last(s) == s[Len(s)]

Range(s) == { s[i] : i \in 1..Len(s) }

Iota(n) == [i \in 1..n |-> i]

\* (variant: the requested list is migrated as it is, absent names included)
FilterTablesKeepsAbsent(req, avail) == req

\* line 149: [table for table in tables_to_load if table in available_tables]
RECURSIVE FilterTables(_, _)
FilterTables(req, avail) ==
    IF req = <<>> THEN <<>>
    ELSE IF Head(req) \in avail
         THEN <<Head(req)>> \o FilterTables(Tail(req), avail)
         ELSE FilterTables(Tail(req), avail)

\* (variant: ROWS off TO off+bs, the first row of a page repeats the last
\* row of the page before)
PageRowsFromOffset(s, off, bs) == SubSeq(s, Max(off, 1), Min(off + bs, Len(s)))

\* lines 131-133: SELECT * FROM t ROWS off+1 TO off+bs
PageRows(s, off, bs) == SubSeq(s, off + 1, Min(off + bs, Len(s)))

\* (variant: every run starts at the first row)
RowCountZero(d) == 0

\* lines 121-122: offset = SELECT COUNT(*) FROM bronze.t
get_destination_row_count(d) == Len(d)

\* (variant: the loop test counts the source rows again)
LoopCondRecounts(off, total) == off < Len(src[filtered[pos]])

\* (variant: while offset <= total_records)
LoopCondInclusive(off, total) == off <= total

\* line 127: while offset < total_records
LoopCond(off, total) == off < total

\* (variant: offset advances by the rows that landed only)
NextOffsetLanded(off, page) == off + Len(page) - Cardinality(failing)

\* (variant: offset advances by the size of the page asked for)
NextOffsetByBlock(off, page) == off + block_size

\* line 141: offset += len(rows)
NextOffset(off, page) == off + Len(page)

\* (variant: pbar.update(block_size))
ProgressDeltaBlock(page) == block_size

\* line 142: pbar.update(len(rows))
ProgressDelta(page) == Len(page)

\* (variant: COPY ... WITH CSV HEADER, the first line of the buffer is taken
\* for a header)
BulkCommitHeader(d, page) == d \o SubSeq(page, 2, Len(page))

\* lines 70-71: one COPY of the whole page, committed as one unit
BulkCommit(d, page) == d \o page

\* lines 90-91: one COPY of one row, committed on its own
RowCommit(d, row) == Append(d, row)

\* (variant: the failed bulk COPY is not rolled back, its first row stays)
RollbackKeepsRow(d) == IF pc = "copy" THEN Append(d, rows[1]) ELSE d

\* line 74 / line 94: rollback leaves the table as it was
Rollback(d) == d

\* ------------------------------------------------------------ cell values
\* A character is the NUL character or another one.
NUL == "NUL"

Chars == {NUL, "a"}

\* Character sequences of at most MaxStr characters.
Strings == UNION { [1..n -> Chars] : n \in 0..MaxStr }

\* A cell of a fetched row: a str, a value of another type (bytes of a BLOB,
\* which may hold NUL bytes too), or None.
StrCells == [kind : {"str"}, val : Strings]

Cells == StrCells \cup [kind : {"bytes"}, val : Strings]
                  \cup {[kind |-> "none", val |-> <<>>]}

\* line 138: the DataFrame of a page; one row of two columns, or two rows of
\* one column.
Frames == { <<r>> : r \in [1..2 -> Cells] }
             \cup { << <<c>>, <<d>> >> : c \in Cells, d \in Cells }

\* line 58: x.replace('\x00', '')
RECURSIVE StrReplaceNul(_)
StrReplaceNul(v) ==
    IF v = <<>> THEN <<>>
    ELSE IF Head(v) = NUL
         THEN StrReplaceNul(Tail(v))
         ELSE <<Head(v)>> \o StrReplaceNul(Tail(v))

\* (variant: x.replace('\x00', '', 1), only the first NUL is removed)
RECURSIVE StrReplaceFirstNul(_)
StrReplaceFirstNul(v) ==
    IF v = <<>> THEN <<>>
    ELSE IF Head(v) = NUL
         THEN Tail(v)
         ELSE <<Head(v)>> \o StrReplaceFirstNul(Tail(v))

SanitizeValueFirstNul(x) ==
    IF x.kind = "str" THEN [x EXCEPT !.val = StrReplaceFirstNul(@)] ELSE x

\* line 58: lambda x: x.replace('\x00', '') if isinstance(x, str) else x
sanitize_value(x) ==
    IF x.kind = "str" THEN [x EXCEPT !.val = StrReplaceNul(@)] ELSE x

\* lines 56-58: every column, every value
sanitize_dataframe(d) ==
    [i \in 1..Len(d) |-> [j \in 1..Len(d[i]) |-> sanitize_value(d[i][j])]]

table == IF pos \in 1..Len(filtered) THEN filtered[pos] ELSE "none"

Zero == [t \in Names |-> 0]

\* line 126: tqdm(total = total_records - offset), nothing reported yet
NewBar(total, off) == [total |-> total - off, n |-> 0]

NoBar == [total |-> 0, n |-> 0]

\* No DataFrame is followed through load_data_using_copy.
NoFrame == [at |-> "none", fetched |-> <<>>, df |-> <<>>, bulk |-> <<>>,
            each |-> <<>>]

\* ---------------------------------------------------------------- Init
InitWith(lists, catalogs, maxTotal) ==
    /\ available_tables \in catalogs
    /\ src \in [Names -> {Iota(n) : n \in 0..maxTotal}]
    /\ \A t \in Names : t \notin available_tables => src[t] = <<>>
    /\ dest = [t \in Names |-> <<>>]
    /\ tables_to_load \in lists
    /\ block_size \in 1..MaxBlock
    /\ pc = "idle"
    /\ filtered = <<>>
    /\ pos = 0
    /\ total_records = 0
    /\ offset = 0
    /\ rows = <<>>
    /\ failing = {}
    /\ idx = 0
    /\ runs = 0
    /\ lastEnd = "none"
    /\ startOffset = 0
    /\ pages = <<>>
    /\ bulkFailed = FALSE
    /\ preCount = 0
    /\ passes = 0
    /\ attempts = <<>>
    /\ fetchedHi = Zero
    /\ killedHi = Zero
    /\ srcWrites = 0
    /\ skipped = {}
    /\ pbar = NoBar

\* One table is requested and exists: the chunked migrator on its own.
Init == InitWith({ <<"T1">> }, { {"T1"} }, MaxTotal) /\ san = NoFrame

\* Several tables are requested, any of them may be absent at the source.
InitOrch == InitWith(RequestLists, SUBSET Names, OrchTotal) /\ san = NoFrame

\* A page is in flight: fetched, and offset not yet advanced past it.
InPage == {"copy", "rowwise", "advance"}

\* Between the resume and the end of a table's migration.
InLoop == {"while", "copy", "rowwise", "advance", "done"}

KilledEnds == {"killed", "killed_in_page"}

\* The observations of a table's migration, before its first page.
ResetObserved ==
    /\ startOffset' = 0
    /\ pages' = <<>>
    /\ bulkFailed' = FALSE
    /\ preCount' = 0
    /\ passes' = 0
    /\ attempts' = <<>>
    /\ skipped' = {}
    /\ pbar' = NoBar

\* The process ends (normally, by an uncaught exception, or killed): what
\* it held in memory is gone.  What a killed process had fetched is kept
\* for the properties of the next one.
EndProcess(how) ==
    /\ pc' = "idle"
    /\ lastEnd' = how
    /\ total_records' = 0
    /\ offset' = 0
    /\ rows' = <<>>
    /\ failing' = {}
    /\ idx' = 0
    /\ ResetObserved
    /\ fetchedHi' = Zero
    /\ killedHi' = IF how \in KilledEnds THEN fetchedHi ELSE Zero

\* ---------------------------------------------------------------- actions
\* __main__ and run_migration lines 147-152.
StartRun ==
    /\ pc = "idle"
    /\ runs < MaxRuns
    /\ runs' = runs + 1
    /\ pos' = 0
    /\ \/ /\ filtered' = FilterTables(tables_to_load, available_tables)
          /\ pc' = "for"
          /\ UNCHANGED << lastEnd, total_records, offset, rows, failing, idx,
                          observed, fetchedHi, killedHi >>
       \/ \* list_firebird_tables cannot connect: the exception leaves run_migration
          /\ filtered' = <<>>
          /\ EndProcess("aborted")
    /\ UNCHANGED << config, dest >>

\* run_migration line 154: for table in tables_to_load
ForTable ==
    /\ pc = "for"
    /\ IF pos < Len(filtered)
       THEN /\ pos' = pos + 1
            /\ pc' = "probe"
            /\ UNCHANGED << lastEnd, total_records, offset, rows, failing, idx,
                            observed, fetchedHi, killedHi >>
       ELSE /\ pos' = pos
            /\ EndProcess("finished")
    /\ UNCHANGED << config, dest, filtered, runs >>

\* extract_and_load_data_in_chunks lines 109-115
Probe ==
    /\ pc = "probe"
    /\ \/ /\ total_records' = Len(src[table])
          /\ pc' = "resume"
          /\ offset' = 0
          /\ rows' = <<>>
          /\ failing' = {}
          /\ ResetObserved
          /\ UNCHANGED << lastEnd, idx, fetchedHi, killedHi >>
       \/ \* the source cannot be reached: nothing in run_migration catches it
          EndProcess("aborted")
    /\ UNCHANGED << config, dest, filtered, pos, runs >>

\* lines 118-124
Resume ==
    /\ pc = "resume"
    /\ \/ /\ offset' = get_destination_row_count(dest[table])
          /\ startOffset' = get_destination_row_count(dest[table])
          /\ pbar' = NewBar(total_records,
                            get_destination_row_count(dest[table]))
          /\ pc' = "while"
          /\ UNCHANGED << lastEnd, total_records, rows, failing, idx, pages,
                          bulkFailed, preCount, passes, attempts, skipped,
                          fetchedHi, killedHi >>
       \/ \* the destination cannot be reached
          EndProcess("aborted")
    /\ UNCHANGED << config, dest, filtered, pos, runs >>

\* lines 127-138: the loop test, the paginated read, the empty-page break
ReadPage ==
    /\ pc = "while"
    /\ IF LoopCond(offset, total_records)
       THEN \/ LET page == PageRows(src[table], offset, block_size) IN
               /\ pages' = Append(pages, <<offset, page>>)
               /\ fetchedHi' = [fetchedHi EXCEPT
                                  ![table] = Max(@, offset + Len(page))]
               /\ IF page = <<>>
                  THEN /\ pc' = "done"
                       /\ rows' = <<>>
                       /\ failing' = {}
                  ELSE /\ pc' = "copy"
                       /\ rows' = page
                       /\ failing' \in SUBSET (1..Len(page))
               /\ bulkFailed' = FALSE
               /\ preCount' = 0
               /\ passes' = 0
               /\ attempts' = <<>>
               /\ UNCHANGED << lastEnd, total_records, offset, idx,
                               startOffset, skipped, pbar, killedHi >>
            \/ \* the source cannot be reached for this page
               EndProcess("aborted")
       ELSE /\ pc' = "done"
            /\ UNCHANGED << lastEnd, total_records, offset, rows, failing,
                            idx, observed, fetchedHi, killedHi >>
    /\ UNCHANGED << config, dest, filtered, pos, runs >>

\* load_data_using_copy lines 60-79.  The COPY raises when a row of the page
\* is malformed, and may raise for another reason.
CopySucceeds ==
    /\ pc = "copy"
    /\ failing = {}
    /\ dest' = [dest EXCEPT ![table] = BulkCommit(@, rows)]
    /\ preCount' = Len(dest[table])
    /\ bulkFailed' = FALSE
    /\ pc' = "advance"
    /\ UNCHANGED << config, filtered, pos, total_records, offset, rows,
                    failing, idx, runs, lastEnd, startOffset, pages, passes,
                    attempts, skipped, pbar, fetchedHi, killedHi >>

\* (variant: the except clause rolls back and raises again, no fallback)
CopyFailsRaises ==
    /\ pc = "copy"
    /\ dest' = [dest EXCEPT ![table] = Rollback(@)]
    /\ EndProcess("aborted")
    /\ UNCHANGED << config, filtered, pos, runs >>

CopyFails ==
    /\ pc = "copy"
    /\ dest' = [dest EXCEPT ![table] = Rollback(@)]
    /\ preCount' = Len(dest[table])
    /\ bulkFailed' = TRUE
    /\ passes' = passes + 1
    /\ idx' = 1
    /\ pc' = "rowwise"
    /\ UNCHANGED << config, filtered, pos, total_records, offset, rows,
                    failing, runs, lastEnd, startOffset, pages, attempts,
                    skipped, pbar, fetchedHi, killedHi >>

\* (variant: the try is around the loop, the first failing row ends the pass)
LoadRowsStopsAtFailure ==
    /\ pc = "rowwise"
    /\ idx \in 1..Len(rows)
    /\ IF idx \in failing
       THEN /\ dest' = [dest EXCEPT ![table] = Rollback(@)]
            /\ attempts' = Append(attempts, <<rows[idx], FALSE>>)
            /\ skipped' = skipped \cup {rows[idx]}
       ELSE /\ dest' = [dest EXCEPT ![table] = RowCommit(@, rows[idx])]
            /\ attempts' = Append(attempts, <<rows[idx], TRUE>>)
            /\ skipped' = skipped
    /\ IF idx < Len(rows) /\ idx \notin failing
       THEN /\ idx' = idx + 1
            /\ pc' = "rowwise"
       ELSE /\ idx' = 0
            /\ pc' = "advance"
    /\ UNCHANGED << config, filtered, pos, total_records, offset, rows,
                    failing, runs, lastEnd, startOffset, pages, bulkFailed,
                    preCount, passes, pbar, fetchedHi, killedHi >>

\* load_rows_individually lines 85-96: one iteration of the loop
load_rows_individually ==
    /\ pc = "rowwise"
    /\ idx \in 1..Len(rows)
    /\ IF idx \in failing
       THEN /\ dest' = [dest EXCEPT ![table] = Rollback(@)]
            /\ attempts' = Append(attempts, <<rows[idx], FALSE>>)
            /\ skipped' = skipped \cup {rows[idx]}
       ELSE /\ dest' = [dest EXCEPT ![table] = RowCommit(@, rows[idx])]
            /\ attempts' = Append(attempts, <<rows[idx], TRUE>>)
            /\ skipped' = skipped
    /\ IF idx < Len(rows)
       THEN /\ idx' = idx + 1
            /\ pc' = "rowwise"
       ELSE /\ idx' = 0
            /\ pc' = "advance"
    /\ UNCHANGED << config, filtered, pos, total_records, offset, rows,
                    failing, runs, lastEnd, startOffset, pages, bulkFailed,
                    preCount, passes, pbar, fetchedHi, killedHi >>

\* lines 141-142
Advance ==
    /\ pc = "advance"
    /\ offset' = NextOffset(offset, rows)
    /\ pbar' = [pbar EXCEPT !.n = @ + ProgressDelta(rows)]
    /\ pc' = "while"
    /\ UNCHANGED << config, dest, filtered, pos, total_records, rows, failing,
                    idx, runs, lastEnd, startOffset, pages, bulkFailed,
                    preCount, passes, attempts, skipped, fetchedHi,
                    killedHi >>

\* line 144 and run_migration line 157
TableDone ==
    /\ pc = "done"
    /\ pc' = "for"
    /\ UNCHANGED << config, dest, filtered, pos, total_records, offset, rows,
                    failing, idx, runs, lastEnd, observed, fetchedHi,
                    killedHi >>

\* The process is killed; committed rows stay, memory is lost.
Kill ==
    /\ pc # "idle"
    /\ EndProcess(IF pc \in InPage THEN "killed_in_page" ELSE "killed")
    /\ UNCHANGED << config, dest, filtered, pos, runs >>

\* Another program deletes the last row of the source table being migrated,
\* or adds a row after the last one.  The migrator reads the source at lines
\* 111 and 132 only, so a write is placed right before a paginated read: a
\* write made during the load of a page is seen by the same read.
SourceWrite ==
    /\ pc = "while"
    /\ srcWrites < MaxSrcWrites
    /\ srcWrites' = srcWrites + 1
    /\ \/ /\ src[table] # <<>>
          /\ src' = [src EXCEPT ![table] = SubSeq(@, 1, Len(@) - 1)]
       \/ src' = [src EXCEPT ![table] = Append(@, Len(@) + 1)]
    /\ UNCHANGED << available_tables, tables_to_load, block_size, san, dest,
                    pc, filtered, pos, total_records, offset, rows, failing,
                    idx, runs, lastEnd, observed, fetchedHi, killedHi >>

\* load_data_using_copy lines 60-79, with the row pass it calls at line 76
load_data_using_copy ==
    \/ CopySucceeds
    \/ CopyFails
    \/ load_rows_individually

\* extract_and_load_data_in_chunks lines 107-144
extract_and_load_data_in_chunks ==
    \/ Probe
    \/ Resume
    \/ ReadPage
    \/ load_data_using_copy
    \/ Advance
    \/ TableDone

\* run_migration lines 146-157
run_migration ==
    \/ StartRun
    \/ ForTable
    \/ extract_and_load_data_in_chunks

Next ==
    \/ run_migration
    \/ Kill
    \/ SourceWrite

Spec == Init /\ [][Next]_vars

SpecOrch == InitOrch /\ [][Next]_vars

\* ------------------------------------------ one DataFrame through the loader
\* load_data_using_copy is called on a DataFrame of fetched rows; the
\* migration itself stands still.
InitSan ==
    /\ InitWith({ <<"T1">> }, { {"T1"} }, 0)
    /\ block_size = 1
    /\ san \in { [at |-> "load", fetched |-> f, df |-> f, bulk |-> <<>>,
                  each |-> <<>>] : f \in Frames }

migration == << src, available_tables, dest, tables_to_load, block_size, pc,
                filtered, pos, total_records, offset, rows, failing, idx,
                runs, lastEnd, observed, fetchedHi, killedHi, srcWrites >>

\* lines 61-70: df is rebound to its sanitized copy, written as CSV and
\* handed to COPY
SanBulk ==
    /\ san.at = "load"
    /\ san' = [san EXCEPT !.at = "copy",
                          !.df = sanitize_dataframe(san.df),
                          !.bulk = sanitize_dataframe(san.df)]
    /\ UNCHANGED migration

\* line 71: the COPY went through
SanCommit ==
    /\ san.at = "copy"
    /\ san' = [san EXCEPT !.at = "done"]
    /\ UNCHANGED migration

\* lines 72-76: the COPY raised, the rebound df goes to load_rows_individually
SanExcept ==
    /\ san.at = "copy"
    /\ san' = [san EXCEPT !.at = "rows"]
    /\ UNCHANGED migration

\* lines 83-87: the next row of df, as a DataFrame of one row, is handed to
\* COPY; load_rows_individually does not sanitize again
SanRow ==
    /\ san.at = "rows"
    /\ Len(san.each) < Len(san.df)
    /\ san' = [san EXCEPT !.each = Append(@, <<san.df[Len(san.each) + 1]>>)]
    /\ UNCHANGED migration

\* line 83: no row is left
SanRowsDone ==
    /\ san.at = "rows"
    /\ Len(san.each) = Len(san.df)
    /\ san' = [san EXCEPT !.at = "done"]
    /\ UNCHANGED migration

NextSan == SanBulk \/ SanCommit \/ SanExcept \/ SanRow \/ SanRowsDone

SpecSan == InitSan /\ [][NextSan]_vars

\* The interpreter takes the next step of a running process unless the process
\* is killed: the steps of one table's migration are taken weakly fairly.
SpecLive == Init /\ [][Next]_vars /\ WF_vars(extract_and_load_data_in_chunks)

TypeOK ==
    /\ pc \in {"idle", "for", "probe", "resume", "while", "copy", "rowwise",
               "advance", "done"}
    /\ offset \in Nat
    /\ runs \in 0..MaxRuns
    /\ lastEnd \in {"none", "finished", "aborted"} \cup KilledEnds
    /\ table \in Names \cup {"none"}
    /\ pc \in InLoop \cup {"probe", "resume"} => table \in Names
\* ---------------------------------------------------------------- properties
\* The rows of a page at the positions not in bad, in page order.
Kept(page, bad) ==
    LET F[i \in 0..Len(page)] ==
          IF i = 0 THEN <<>>
          ELSE IF i \in bad THEN F[i - 1] ELSE Append(F[i - 1], page[i])
    IN F[Len(page)]

\* The rows of all the pages read so far for the current table, in order.
Fetched ==
    LET F[i \in 0..Len(pages)] ==
          IF i = 0 THEN <<>> ELSE F[i - 1] \o pages[i][2]
    IN F[Len(pages)]

\* What the current page added to the destination table.
Landed == SubSeq(dest[table], preCount + 1, Len(dest[table]))

Unmodified == srcWrites = 0

\* C1 -- Idempotent resumption: after a first complete run on an unmodified
\* source every migrated table holds as many rows as its source, and a
\* second run reads no page, whatever appends failed in the first run.
C1_IdempotentResumption ==
    Unmodified =>
      /\ (pc = "idle" /\ runs = 1 /\ lastEnd = "finished") =>
            \A t \in Range(filtered) : Len(dest[t]) = Len(src[t])
      /\ (pc # "idle" /\ runs = 2 /\ lastEnd = "finished") => pages = <<>>

\* C2 (as claimed) -- Page coverage: when a table's migration ends on an
\* unmodified source, the pages read cover rows 1..total, each row once.
C2_PagesCoverOneToTotal ==
    (pc = "done" /\ Unmodified) => Fetched = Iota(total_records)

\* C2 (amended) -- when a table's migration ends on an unmodified source,
\* the pages read hold rows d+1..total in order, each row once, d being the
\* destination row count read at resume; rows 1..total when d = 0.
C2_PagesCoverFromResume ==
    (pc = "done" /\ Unmodified) =>
        /\ Fetched = SubSeq(Iota(total_records), startOffset + 1, total_records)
        /\ startOffset = 0 => Fetched = Iota(total_records)

C2_Witness ==
    /\ pc = "done" /\ Unmodified
    /\ startOffset > 0 /\ Len(pages) >= 2
    /\ Fetched # Iota(total_records)

\* C3 -- Fallback isolation: a page of N rows with exactly one malformed row
\* fails in bulk, the row pass lands the other N-1 rows and skips the
\* malformed one, and offset advances by N.
C3_FallbackIsolation ==
    (pc \in {"advance", "while"} /\ rows # <<>> /\ Cardinality(failing) = 1) =>
        /\ bulkFailed
        /\ Len(Landed) = Len(rows) - 1
        /\ Landed = Kept(rows, failing)
        /\ \A i \in failing : rows[i] \notin Range(Landed)
        /\ pc = "while" => offset = Last(pages)[1] + Len(rows)

C3_Witness ==
    /\ pc = "while" /\ Cardinality(failing) = 1 /\ Len(rows) = 2
    /\ Len(Landed) = 1 /\ offset = Last(pages)[1] + 2

\* C4 -- Per-table failure isolation: a run that is not killed ends having
\* gone through every table of the filtered list, whatever failed in one
\* table's migration; it does not end by a table's exception.
C4_TableFailureIsolated ==
    (pc = "idle" /\ runs > 0 /\ lastEnd \notin KilledEnds /\ pos >= 1) =>
        /\ lastEnd = "finished"
        /\ pos = Len(filtered)

\* C5 -- Offset is the destination row count: at the loop test, before the
\* first page and after every processed page, offset equals the number of
\* rows in the destination table.
C5_OffsetIsDestinationCount ==
    pc = "while" => offset = Len(dest[table])

\* C6 -- Offset monotonicity and page order: within a table's migration
\* offset never decreases, it starts at the destination row count, and the
\* pages are read one at a time at strictly increasing offsets.
C6_State ==
    pc \in InLoop =>
        /\ offset >= startOffset
        /\ (pc = "while" /\ pages = <<>>) => offset = Len(dest[table])
        /\ pages # <<>> => pages[1][1] = startOffset
        /\ \A i, j \in 1..Len(pages) : i < j => pages[i][1] < pages[j][1]
        /\ pc \in InPage => Last(pages) = <<offset, rows>>

C6_Step ==
    (pc \in InLoop /\ pc' \in InLoop) => offset' >= offset

\* C6 -- offset never decreases within a table's migration, starts at the
\* destination row count, and the reads are at strictly increasing offsets.
C6_OffsetMonotone == [](C6_State) /\ [][C6_Step]_vars

C6_Witness ==
    /\ pc = "while" /\ startOffset > 0 /\ dest[table] # <<>>
    /\ Len(pages) >= 1 /\ offset > startOffset

C8_State ==
    /\ (pc = "rowwise") => bulkFailed /\ passes = 1
    /\ (pc = "advance" /\ bulkFailed) =>
          /\ passes = 1
          /\ [i \in 1..Len(attempts) |-> attempts[i][1]] = rows
          /\ Last(pages) = <<offset, rows>>
          /\ \A i \in 1..(Len(pages) - 1) : pages[i][1] # offset

C8_Step ==
    /\ pc \in {"copy", "rowwise"} =>
          \/ pc' \in {"rowwise", "advance"}
          \/ pc' = "idle" /\ lastEnd' \in KilledEnds
    /\ (pc = "copy" /\ pc' = "rowwise") => (rows' = rows /\ pages' = pages)
    /\ (pc = "rowwise" /\ pc' \in InPage) => (rows' = rows /\ pages' = pages)
    /\ pc = "advance" =>
          \/ pc' = "while"
          \/ pc' = "idle" /\ lastEnd' \in KilledEnds

C9_State ==
    /\ pc = "rowwise" =>
          /\ Len(attempts) = idx - 1
          /\ \A i \in 1..Len(attempts) :
                attempts[i] = <<rows[i], i \notin failing>>
          /\ Landed = Kept(SubSeq(rows, 1, idx - 1), failing)
    /\ (pc = "advance" /\ bulkFailed) =>
          /\ Len(attempts) = Len(rows)
          /\ \A i \in 1..Len(rows) :
                attempts[i] = <<rows[i], i \notin failing>>
          /\ Landed = Kept(rows, failing)

C9_Step ==
    pc = "rowwise" =>
        \/ dest' = dest
        \/ /\ pc' \in {"rowwise", "advance"}
           /\ idx \notin failing
           /\ dest' = [dest EXCEPT ![table] = Append(@, rows[idx])]

\* C9 -- the row pass attempts each row once, in order, commits each
\* non-failing row on its own and skips each failing row.
C9_RowPassIsolatesFailures == [](C9_State) /\ [][C9_Step]_vars

C9_Witness ==
    /\ pc = "advance" /\ bulkFailed /\ Len(rows) = 2 /\ failing = {1}
    /\ attempts = << <<rows[1], FALSE>>, <<rows[2], TRUE>> >>
    /\ Landed = <<rows[2]>>

\* The rows read by this process for the current table that the killed
\* process had fetched already.
Refetched ==
    { r \in Range(Fetched) : r <= killedHi[table] }

\* C10 -- Crash resumption: after a process was killed while a page was in
\* flight, the next one, on an unmodified source, starts each table at the
\* committed destination row count and reads again at most block_size of
\* the rows the killed one had fetched.
C10_CrashResumption ==
    (lastEnd = "killed_in_page" /\ pc \in InLoop /\ Unmodified) =>
        /\ startOffset <= Len(dest[table])
        /\ pages = <<>> => offset = Len(dest[table])
        /\ Cardinality(Refetched) <= block_size

\* The tables extract_and_load_data_in_chunks has been called on by the
\* running process, in call order (line 155: one call per step of the loop).
Invoked == SubSeq(filtered, 1, pos)

\* C11: run_migration calls the migrator exactly for the requested names that
\* exist at the source, in the requested order, duplicates included; an absent
\* name is passed over without an error. While the process runs, the calls
\* made so far are a prefix of the requested names that exist; the loop takes
\* them one by one; a run that finishes has called every one of them.
C11_State ==
    /\ (pc # "idle") =>
          /\ filtered = SelectSeq(tables_to_load,
                                  LAMBDA t : t \in available_tables)
          /\ pos <= Len(filtered)
          /\ \A i \in 1..Len(Invoked) : Invoked[i] \in available_tables
    /\ (pc \in {"probe", "resume"} \cup InLoop) => table \in available_tables

C11_Step ==
    /\ (pc = "for" /\ pc' = "probe") =>
          /\ pos' = pos + 1
          /\ table' = filtered[pos + 1]
    /\ (pc = "for" /\ pc' = "idle" /\ lastEnd' = "finished") =>
          pos = Len(SelectSeq(tables_to_load,
                              LAMBDA t : t \in available_tables))
    /\ (pc # "for" /\ pc # "idle" /\ pc' # "idle") => pos' = pos

C11_TableFiltering == [](C11_State) /\ [][C11_Step]_vars

\* A finished run whose list held a missing name: it called the other name.
C11_Witness ==
    /\ pc = "for"
    /\ pos = Len(filtered)
    /\ tables_to_load = <<"T1", "T2">>
    /\ available_tables = {"T2"}
    /\ filtered = <<"T2">>
    /\ Len(dest["T2"]) = 1

\* C12: on a source nobody writes to, with the destination holding
\* d <= total rows at resume, the pages are asked for at offsets d, d + B,
\* d + 2B, ..., each returns min(B, total - offset) rows, and the table ends
\* with offset = total; when no row append failed, the destination then
\* holds total rows.
C12_OffsetProgression ==
    (pc \in InLoop /\ Unmodified /\ startOffset <= total_records) =>
        /\ \A i \in 1..Len(pages) :
              /\ pages[i][1] = startOffset + (i - 1) * block_size
              /\ Len(pages[i][2]) = Min(block_size, total_records - pages[i][1])
        /\ (pc = "done") =>
              /\ offset = total_records
              /\ (skipped = {}) => Len(dest[table]) = total_records

\* total = 3, B = 2, empty destination: a page of 2 rows at offset 0, a page
\* of 1 row at offset 2, offset 3 at the end.
C12_Witness ==
    /\ pc = "done"
    /\ Unmodified
    /\ total_records = 3
    /\ block_size = 2
    /\ pages = << <<0, <<1, 2>> >>, <<2, <<3>> >> >>
    /\ skipped = {}
    /\ offset = 3
    /\ dest[table] = <<1, 2, 3>>

\* What sanitization must give for a cell: a str keeps its characters other
\* than NUL, in order; any other value is the same value.
Clean(c) ==
    IF c.kind = "str"
    THEN [kind |-> "str", val |-> SelectSeq(c.val, LAMBDA ch : ch # NUL)]
    ELSE c

CleanRow(r) == [j \in 1..Len(r) |-> Clean(r[j])]

C14_State ==
    (pc \in InLoop /\ startOffset >= total_records) =>
        /\ pc \in {"while", "done"}
        /\ pages = <<>>
        /\ attempts = <<>>
        /\ ~bulkFailed
        /\ pbar.n = 0
        /\ offset = startOffset
        /\ Len(dest[table]) = startOffset

C14_Step ==
    (pc \in InLoop /\ startOffset >= total_records) =>
        /\ dest' = dest
        /\ (pc = "while" /\ src' = src) => pc' \in {"done", "idle"}

C14_AlreadyMigratedGuard == [](C14_State) /\ [][C14_Step]_vars

\* A source table that shrank after it was migrated: the destination holds
\* more rows than the total read by the probe, and the table is done.
C14_Witness ==
    /\ pc = "done"
    /\ total_records >= 1
    /\ startOffset > total_records
    /\ Len(dest[table]) = startOffset

\* C15: a name that occurs k times in the requested list is migrated k times,
\* and on a source nobody writes to every pass after the first is a no-op: it
\* reads no page and leaves the destination table as it found it.
C15_RepeatedNameIsNoOp ==
    (/\ Unmodified
     /\ pc \in InLoop
     /\ \E i \in 1..(pos - 1) : filtered[i] = table) =>
        /\ pages = <<>>
        /\ Len(dest[table]) = startOffset

\* C16: the migration of a table ends after finitely many pages, whatever the
\* total, the destination count at resume, the block size and the appends
\* that fail. A page is read only while offset < total; a page that is not
\* empty moves the offset up by at least 1 and an empty page ends the loop, so
\* never more than max(total - d, 0) pages are read; and a table whose
\* migration has started reaches Done unless its process ends first (killed,
\* or stopped by a connection that fails).
C16_State ==
    (pc \in InLoop) =>
        /\ Len(pages) <= Max(total_records - startOffset, 0)
        /\ \A i \in 1..Len(pages) : pages[i][1] < total_records

C16_Step ==
    /\ (pc = "while" /\ pc' = "copy") => Len(rows') >= 1
    /\ (pc = "advance" /\ pc' = "while") => offset' >= offset + 1
    /\ (pc = "while" /\ pages' # pages /\ pc' # "idle" /\ Last(pages')[2] = <<>>)
          => pc' = "done"

C16_Termination ==
    /\ [](C16_State)
    /\ [][C16_Step]_vars
    /\ (pc = "probe") ~> (pc \in {"done", "idle"})

\* Every row append of a table failed and the table is done all the same.
C16_Witness ==
    /\ pc = "done"
    /\ total_records = MaxTotal
    /\ Len(pages) >= 2
    /\ skipped = Range(src[table])
    /\ dest[table] = <<>>

\* C17: the source total is read by the probe and never read again while the
\* table is migrated; when a page comes back empty although offset < total
\* (the source shrank after the probe), the loop ends there without an error,
\* without an append and without moving the offset, and the table is Done.
C17_State ==
    (pc = "done" /\ pages # <<>> /\ Last(pages)[2] = <<>>) =>
        /\ Last(pages)[1] = offset
        /\ offset < total_records
        /\ Len(src[table]) <= offset
        /\ attempts = <<>>
        /\ ~bulkFailed

C17_Step ==
    /\ (pc \in InLoop /\ pc' \in InLoop) => total_records' = total_records
    /\ (pc = "while" /\ offset < total_records /\ pc' = "done") =>
          /\ PageRows(src[table], offset, block_size) = <<>>
          /\ pages' = Append(pages, <<offset, <<>> >>)
          /\ offset' = offset
          /\ dest' = dest
          /\ lastEnd' = lastEnd
          /\ runs' = runs
    /\ (/\ pc = "while"
        /\ offset < total_records
        /\ PageRows(src[table], offset, block_size) = <<>>
        /\ src' = src) => pc' \in {"done", "idle"}
    /\ (pc = "done" /\ pc' # "idle") => (pc' = "for" /\ dest' = dest)

C17_EmptyPageEndsLoop == [](C17_State) /\ [][C17_Step]_vars

\* One page was loaded, the source then lost its last row, and the next page
\* came back empty: the table is done with offset below the total.
C17_Witness ==
    /\ pc = "done"
    /\ Len(pages) = 2
    /\ pages[1][2] # <<>>
    /\ pages[2][2] = <<>>
    /\ offset < total_records
    /\ Len(dest[table]) = offset

\* C18: whatever runs are made of a table on a source nobody writes to,
\* complete or killed, and whatever appends fail, no source row is committed
\* to the destination more than once.
C18_NoDuplicateLoads ==
    Unmodified =>
        \A t \in Names : \A i, j \in 1..Len(dest[t]) :
            dest[t][i] = dest[t][j] => i = j

\* C19: for a table migrated from an empty destination on a source nobody
\* writes to, after every processed page the destination holds the source rows
\* 1..offset in source order without the rows whose row append failed, and
\* nothing else; with no failed row it holds exactly the rows 1..offset.
C19_DestinationIsSourcePrefix ==
    (Unmodified /\ pc \in {"while", "done"} /\ startOffset = 0) =>
        /\ skipped \subseteq 1..offset
        /\ dest[table] = Kept(Iota(offset), skipped)
        /\ (skipped = {}) => dest[table] = SubSeq(src[table], 1, offset)

\* Three rows migrated in two pages from an empty destination; row 2 failed
\* in its row append, rows 1 and 3 landed.
C19_Witness ==
    /\ pc = "done"
    /\ Unmodified
    /\ startOffset = 0
    /\ offset = 3
    /\ Len(pages) = 2
    /\ skipped = {2}
    /\ dest[table] = <<1, 3>>

\* C20: on a source nobody writes to, with the destination count at resume at
\* most the total, the offset never exceeds the total, the progress reported
\* so far is the distance covered from the initial offset, and at Done the
\* offset is the total and the progress reported adds up to total minus the
\* initial offset, the total the progress bar was given.
C20_OffsetWithinTotal ==
    (Unmodified /\ pc \in InLoop /\ startOffset <= total_records) =>
        /\ offset <= total_records
        /\ startOffset <= offset
        /\ pbar.total = total_records - startOffset
        /\ pbar.n = offset - startOffset
        /\ (pc = "done") =>
              /\ offset = total_records
              /\ pbar.n = total_records - startOffset

\* A resumed table: 1 row of 3 was there, one page brought the 2 rows that
\* were left, and the progress reported is 2.
C20_Witness ==
    /\ pc = "done"
    /\ Unmodified
    /\ startOffset = 1
    /\ block_size = 2
    /\ total_records = 3
    /\ offset = 3
    /\ pbar = [total |-> 2, n |-> 2]
====
